---- MODULE Spec2Model ----
(***************************************************************************)
(* Model of scripts/mt5_container_manager.py: the MT5ContainerManager      *)
(* class (availability guard, start/stop/restart ladder, health check,     *)
(* notifier), its monitor loop and the command-line entry point main().    *)
(*                                                                         *)
(* The program is single threaded.  Its position is a stack of labels pc   *)
(* (Head = the statement about to run, the rest = return addresses).  One  *)
(* step runs the code up to and including the next external interaction    *)
(* (a shell command through run_command, a sleep, the TCP connect, the     *)
(* HTTP post).  The clock `now` is datetime.now(); sleeps advance it by    *)
(* their length, a shell command or HTTP post by a positive latency.       *)
(* The container runtime is the environment: every command may succeed or  *)
(* fail (run_command turns non-zero exits, timeouts and spawn errors into  *)
(* a False result); a successful command has its effect on the container.  *)
(*                                                                         *)
(* Spec is the program in normal operation, FairSpec adds the fairness of  *)
(* its steps.  DaemonSpec is daemon mode with what can cut a tick short:   *)
(* an exception raised by a statement of the loop body and the operator's  *)
(* interruption (KeyboardInterrupt) at any point.                          *)
(***************************************************************************)
EXTENDS Integers, Sequences, FiniteSets, TLC

\* ---- bounds of the exploration ----
MaxTicks == 3         \* iterations of the monitor loop explored
MaxCalls == 2         \* direct method calls explored on one manager object
MaxFaults == 1        \* exceptions raised in the body of the monitor loop

\* ---- program constants ----
SettleDelay == 30                 \* time.sleep(30) after a (re)start
ManualPause == 5                  \* time.sleep(5) between stop and start
health_check_interval == 300      \* 5 * 60
DefaultRestartInterval == 43200   \* 12 * 3600
\* time one external interaction (shell command, TCP connect, HTTP post)
\* takes on the clock: positive, datetime.now() never reads the same value
\* before and after a subprocess has run
CmdLatency == 1
FallbackDelay == 60               \* time.sleep(60) after a caught exception
\* exit status of a Python process ended by an unhandled KeyboardInterrupt
\* (128 + SIGINT)
InterruptStatus == 130
\* restart_interval is an attribute of the manager; scenario runs set it to
\* a small multiple of the poll interval
RestartIntervals == {2 * health_check_interval, DefaultRestartInterval}

\* container names are sequences of tokens, so that "is a prefix of" and
\* "is equal to" are different relations
container_name == <<"mt5_user">>
other_name == <<"mt5_user", "_2">>

ContainerStates == {"absent", "stopped", "running"}
\* what requests.post(..., timeout=10) can do in notify_restart: answer 200,
\* answer another status, raise a connection error, raise a timeout
NotifyOutcomes == {"http_200", "http_other", "net_error", "timeout"}
MutatingCmds == {"restart", "stop", "start", "rm", "run"}
RuntimeCmds == MutatingCmds \cup {"ps"}

VARIABLES
    pc,               \* stack of program positions
    ret,              \* value returned by the last call that returned
    now,              \* datetime.now()
    last_restart,     \* self.last_restart
    current_time,     \* local of monitor_loop
    docker_available, \* self.docker_available
    restart_interval, \* self.restart_interval
    args,             \* parsed command line
    container,        \* runtime: state of the container named container_name
    otherRunning,     \* runtime: a container named other_name is running
    portOpen,         \* (mt5_host, mt5_port) accepts connections
    exit_status,      \* process exit status, -1 while the process runs
    ticks,            \* monitor-loop iterations started
    calls,            \* direct method calls made
    lastCall,         \* entry label of the last direct method call
    log,              \* events of the current tick / call / one-shot run
    trigger,          \* which trigger fired in the current tick
    lrStart,          \* last_restart when the current tick / call began
    snap,             \* runtime facts when the current tick / call began
    alwaysUp,         \* container running and port open at the start of every tick so far
    hcPassed,         \* every health check of the loop so far returned healthy
    faults            \* exceptions raised in the body of the monitor loop so far

vars == <<pc, ret, now, last_restart, current_time, docker_available,
          restart_interval, args, container, otherRunning, portOpen,
          exit_status, ticks, calls, lastCall, log, trigger, lrStart, snap,
          alwaysUp, hcPassed, faults>>

config == <<docker_available, restart_interval, args>>
env == <<container, otherRunning, portOpen>>
harness == <<ticks, calls, lastCall, trigger, lrStart, snap, alwaysUp, hcPassed, faults>>

\* ---- helpers over the event log ----
Range(s) == {s[i] : i \in 1..Len(s)}
Count(s, e) == Cardinality({i \in 1..Len(s) : s[i] = e})
Positions(s, e) == {i \in 1..Len(s) : s[i] = e}

\* the events one run_command call leaves in the log
Cmd(cmd, ok) == <<cmd, IF ok THEN "ok" ELSE "fail">>
\* the command cmd was issued and exited 0
CmdOk(s, cmd) == \E i \in 1..(Len(s) - 1) : s[i] = cmd /\ s[i + 1] = "ok"

Snapshot == [running |-> container = "running", port |-> portOpen,
             other |-> otherRunning, state |-> container]

\* ---- the runtime, as seen through run_command ----
\* effect of a command that exits 0
Effect(cmd) ==
    CASE cmd \in {"restart", "start", "run"} -> "running"
      [] cmd = "stop" -> "stopped"
      [] cmd = "rm" -> "absent"
      [] OTHER -> container

\* what happens to the container while the supervisor is not acting on it:
\* it keeps its state, crashes or is stopped, or is started by someone else
ExternalChanges == {container, "stopped", "running"}

\* the port after a sleep of the loop: the program connects to it only when
\* the container is listed as running, so the port of a container that is
\* not running is taken as closed
PortAfterSleep(c) == IF c = "running" THEN BOOLEAN ELSE {FALSE}

\* stdout of `docker ps --filter name=<name> --format {{.Names}}`, split in
\* lines: the filter matches by substring, so other_name is listed too
PsOutput ==
    (IF container = "running" THEN {container_name} ELSE {})
      \cup (IF otherRunning THEN {other_name} ELSE {})

\* variant of IsListedRunning that accepts any listed name containing the
\* configured name
IsListedRunning_Substring(ok) == ok /\ PsOutput # {}

\* is_container_running once the guard has passed: ok is the command's
\* success flag
IsListedRunning(ok) == ok /\ container_name \in PsOutput

\* ---- construction ----
\* State after MT5ContainerManager(): last_restart holds the construction
\* time (the clock's origin), the availability probe has run its one
\* command, and the caller is either main() or code calling the methods.
\* A second running container of a longer name is explored for the direct
\* calls and the one-shot modes; it never changes while the process runs.
Init ==
    /\ last_restart = 0
    /\ now = CmdLatency
    /\ current_time = 0
    /\ docker_available \in BOOLEAN
    /\ restart_interval \in RestartIntervals
    /\ pc \in {<<"main">>, <<"api">>}
    /\ args \in [restart_now : BOOLEAN, health_check : BOOLEAN, daemon : BOOLEAN]
    /\ pc = <<"api">> => args = [restart_now |-> FALSE, health_check |-> FALSE, daemon |-> FALSE]
    /\ container \in ContainerStates
    /\ otherRunning \in BOOLEAN
    /\ (args.daemon /\ ~args.restart_now /\ ~args.health_check) => ~otherRunning
    /\ portOpen \in BOOLEAN
    /\ ret = FALSE
    /\ exit_status = -1
    /\ ticks = 0
    /\ calls = 0
    /\ lastCall = "none"
    /\ log = <<>>
    /\ trigger = "none"
    /\ lrStart = 0
    /\ snap = Snapshot
    /\ alwaysUp = TRUE
    /\ hcPassed = TRUE
    /\ faults = 0

\* ---- start_container ----
\* variant of ST_Entry that skips the "already running" early return
ST_Entry_NoRunningCheck ==
    /\ Head(pc) = "st_entry"
    /\ IF ~docker_available
       THEN /\ log' = log \o <<"st_call", "st_false">>
            /\ ret' = FALSE
            /\ pc' = Tail(pc)
            /\ UNCHANGED now
       ELSE \E ok \in BOOLEAN :
            /\ now' = now + CmdLatency
            /\ log' = log \o <<"st_call">> \o Cmd("ps", ok)
            /\ pc' = <<"st_start">> \o Tail(pc)
            /\ UNCHANGED ret
    /\ UNCHANGED <<last_restart, current_time, config, env, exit_status, harness>>

\* guard, then is_container_running, then the early return
ST_Entry ==
    /\ Head(pc) = "st_entry"
    /\ IF ~docker_available
       THEN /\ log' = log \o <<"st_call", "st_false">>
            /\ ret' = FALSE
            /\ pc' = Tail(pc)
            /\ UNCHANGED now
       ELSE \E ok \in BOOLEAN :
            /\ now' = now + CmdLatency
            /\ IF IsListedRunning(ok)
               THEN /\ log' = log \o <<"st_call">> \o Cmd("ps", ok) \o <<"st_true">>
                    /\ ret' = TRUE
                    /\ pc' = Tail(pc)
               ELSE /\ log' = log \o <<"st_call">> \o Cmd("ps", ok)
                    /\ pc' = <<"st_start">> \o Tail(pc)
                    /\ UNCHANGED ret
    /\ UNCHANGED <<last_restart, current_time, config, env, exit_status, harness>>

\* docker start <name>; on failure fall through to _create_and_run_container
ST_Start ==
    /\ Head(pc) = "st_start"
    /\ \E ok \in BOOLEAN :
        /\ now' = now + CmdLatency
        /\ container' = IF ok THEN Effect("start") ELSE container
        /\ IF ok
           THEN /\ log' = log \o Cmd("start", ok) \o <<"st_true">>
                /\ ret' = TRUE
                /\ pc' = Tail(pc)
           ELSE /\ log' = log \o Cmd("start", ok)
                /\ pc' = <<"st_rm">> \o Tail(pc)
                /\ UNCHANGED ret
    /\ UNCHANGED <<last_restart, current_time, config, otherRunning, portOpen,
                   exit_status, harness>>

\* variant of ST_Rm that gives up when the removal fails
ST_Rm_AbortOnFailure ==
    /\ Head(pc) = "st_rm"
    /\ \E ok \in BOOLEAN :
        /\ now' = now + CmdLatency
        /\ container' = IF ok THEN Effect("rm") ELSE container
        /\ IF ok
           THEN /\ log' = log \o Cmd("rm", ok)
                /\ pc' = <<"st_run">> \o Tail(pc)
                /\ UNCHANGED ret
           ELSE /\ log' = log \o Cmd("rm", ok) \o <<"st_false">>
                /\ pc' = Tail(pc)
                /\ ret' = FALSE
    /\ UNCHANGED <<last_restart, current_time, config, otherRunning, portOpen,
                   exit_status, harness>>

\* _create_and_run_container: docker rm -f <name>, result ignored
ST_Rm ==
    /\ Head(pc) = "st_rm"
    /\ \E ok \in BOOLEAN :
        /\ now' = now + CmdLatency
        /\ container' = IF ok THEN Effect("rm") ELSE container
        /\ log' = log \o Cmd("rm", ok)
    /\ pc' = <<"st_run">> \o Tail(pc)
    /\ UNCHANGED <<ret, last_restart, current_time, config, otherRunning, portOpen,
                   exit_status, harness>>

\* _create_and_run_container: docker run -d --name <name> ...
ST_Run ==
    /\ Head(pc) = "st_run"
    /\ \E ok \in BOOLEAN :
        /\ now' = now + CmdLatency
        /\ container' = IF ok THEN Effect("run") ELSE container
        /\ log' = log \o Cmd("run", ok) \o <<IF ok THEN "st_true" ELSE "st_false">>
        /\ ret' = ok
    /\ pc' = Tail(pc)
    /\ UNCHANGED <<last_restart, current_time, config, otherRunning, portOpen,
                   exit_status, harness>>

\* ---- stop_container ----
\* variant of SC_Entry without the docker_available guard
SC_Entry_NoGuard ==
    /\ Head(pc) = "sc_entry"
    /\ \E ok \in BOOLEAN :
        /\ now' = now + CmdLatency
        /\ IF ~IsListedRunning(ok)
           THEN /\ log' = log \o <<"sc_call">> \o Cmd("ps", ok) \o <<"sc_true">>
                /\ ret' = TRUE
                /\ pc' = Tail(pc)
           ELSE /\ log' = log \o <<"sc_call">> \o Cmd("ps", ok)
                /\ pc' = <<"sc_stop">> \o Tail(pc)
                /\ UNCHANGED ret
    /\ UNCHANGED <<last_restart, current_time, config, env, exit_status, harness>>

\* guard, then is_container_running, then the early return
SC_Entry ==
    /\ Head(pc) = "sc_entry"
    /\ IF ~docker_available
       THEN /\ log' = log \o <<"sc_call", "sc_false">>
            /\ ret' = FALSE
            /\ pc' = Tail(pc)
            /\ UNCHANGED now
       ELSE \E ok \in BOOLEAN :
            /\ now' = now + CmdLatency
            /\ IF ~IsListedRunning(ok)
               THEN /\ log' = log \o <<"sc_call">> \o Cmd("ps", ok) \o <<"sc_true">>
                    /\ ret' = TRUE
                    /\ pc' = Tail(pc)
               ELSE /\ log' = log \o <<"sc_call">> \o Cmd("ps", ok)
                    /\ pc' = <<"sc_stop">> \o Tail(pc)
                    /\ UNCHANGED ret
    /\ UNCHANGED <<last_restart, current_time, config, env, exit_status, harness>>

\* docker stop <name>
SC_Stop ==
    /\ Head(pc) = "sc_stop"
    /\ \E ok \in BOOLEAN :
        /\ now' = now + CmdLatency
        /\ container' = IF ok THEN Effect("stop") ELSE container
        /\ log' = log \o Cmd("stop", ok) \o <<IF ok THEN "sc_true" ELSE "sc_false">>
        /\ ret' = ok
    /\ pc' = Tail(pc)
    /\ UNCHANGED <<last_restart, current_time, config, otherRunning, portOpen,
                   exit_status, harness>>

\* ---- health_check ----
\* variant of HC_Entry that starts a container it finds not running
HC_Entry_Recovering ==
    /\ Head(pc) = "hc_entry"
    /\ IF ~docker_available
       THEN /\ log' = log \o <<"hc_call", "hc_false">>
            /\ ret' = FALSE
            /\ pc' = Tail(pc)
            /\ UNCHANGED <<now, container>>
       ELSE \E ok \in BOOLEAN :
            /\ now' = now + CmdLatency
            /\ IF ~IsListedRunning(ok)
               THEN /\ log' = log \o <<"hc_call">> \o Cmd("ps", ok) \o Cmd("start", TRUE)
                                \o <<"hc_false">>
                    /\ container' = Effect("start")
                    /\ ret' = FALSE
                    /\ pc' = Tail(pc)
               ELSE /\ log' = log \o <<"hc_call">> \o Cmd("ps", ok)
                    /\ pc' = <<"hc_connect">> \o Tail(pc)
                    /\ UNCHANGED <<ret, container>>
    /\ UNCHANGED <<last_restart, current_time, config, otherRunning, portOpen,
                   exit_status, harness>>

\* is_container_running (guard, docker ps, exact membership) and the early
\* return when the container is not listed
HC_Entry ==
    /\ Head(pc) = "hc_entry"
    /\ IF ~docker_available
       THEN /\ log' = log \o <<"hc_call", "hc_false">>
            /\ ret' = FALSE
            /\ pc' = Tail(pc)
            /\ UNCHANGED now
       ELSE \E ok \in BOOLEAN :
            /\ now' = now + CmdLatency
            /\ IF ~IsListedRunning(ok)
               THEN /\ log' = log \o <<"hc_call">> \o Cmd("ps", ok) \o <<"hc_false">>
                    /\ ret' = FALSE
                    /\ pc' = Tail(pc)
               ELSE /\ log' = log \o <<"hc_call">> \o Cmd("ps", ok)
                    /\ pc' = <<"hc_connect">> \o Tail(pc)
                    /\ UNCHANGED ret
    /\ UNCHANGED <<last_restart, current_time, config, env, exit_status, harness>>

\* sock.connect_ex((mt5_host, mt5_port)) == 0
HC_Connect ==
    /\ Head(pc) = "hc_connect"
    /\ now' = now + CmdLatency
    /\ log' = log \o <<"connect", IF portOpen THEN "hc_true" ELSE "hc_false">>
    /\ ret' = portOpen
    /\ pc' = Tail(pc)
    /\ UNCHANGED <<last_restart, current_time, config, env, exit_status, harness>>

\* ---- restart_container (restart_container_direct delegates to it) ----
\* guard, then docker restart <name>; on failure _manual_restart begins with
\* a call of stop_container
RC_Entry ==
    /\ Head(pc) = "rc_entry"
    /\ IF ~docker_available
       THEN /\ log' = log \o <<"rc_call", "rc_false">>
            /\ ret' = FALSE
            /\ pc' = Tail(pc)
            /\ UNCHANGED <<now, container>>
       ELSE \E ok \in BOOLEAN :
            /\ now' = now + CmdLatency
            /\ container' = IF ok THEN Effect("restart") ELSE container
            /\ log' = log \o <<"rc_call">> \o Cmd("restart", ok)
            /\ pc' = IF ok THEN <<"rc_settle">> \o Tail(pc)
                     ELSE <<"sc_entry", "mr_after_stop">> \o Tail(pc)
            /\ UNCHANGED ret
    /\ UNCHANGED <<last_restart, current_time, config, otherRunning, portOpen,
                   exit_status, harness>>

\* time.sleep(30) after a successful docker restart
RC_Settle ==
    /\ Head(pc) = "rc_settle"
    /\ now' = now + SettleDelay
    /\ log' = Append(log, "settle")
    /\ pc' = <<"rc_notify">> \o Tail(pc)
    /\ UNCHANGED <<ret, last_restart, current_time, config, env, exit_status, harness>>

\* variant of RC_Notify in which only a 200 answer lets the restart report
\* success
RC_Notify_FailOnBadDelivery ==
    /\ Head(pc) = "rc_notify"
    /\ now' = now + CmdLatency
    /\ \E o \in NotifyOutcomes :
        /\ log' = log \o <<"notify", o, IF o = "http_200" THEN "rc_true" ELSE "rc_false">>
        /\ ret' = (o = "http_200")
        /\ last_restart' = IF o = "http_200" THEN now + CmdLatency ELSE last_restart
    /\ pc' = Tail(pc)
    /\ UNCHANGED <<current_time, config, env, exit_status, harness>>

\* notify_restart() (every outcome of the post is logged and swallowed),
\* self.last_restart = datetime.now(), return True
RC_Notify ==
    /\ Head(pc) = "rc_notify"
    /\ now' = now + CmdLatency
    /\ last_restart' = now + CmdLatency
    /\ \E o \in NotifyOutcomes : log' = log \o <<"notify", o, "rc_true">>
    /\ ret' = TRUE
    /\ pc' = Tail(pc)
    /\ UNCHANGED <<current_time, config, env, exit_status, harness>>

\* ---- _manual_restart ----
\* variant of MR_AfterStop that goes on to start_container whatever
\* stop_container returned
MR_AfterStop_IgnoreStopResult ==
    /\ Head(pc) = "mr_after_stop"
    /\ now' = now + ManualPause
    /\ log' = Append(log, "pause")
    /\ pc' = <<"st_entry", "mr_after_start">> \o Tail(pc)
    /\ UNCHANGED <<ret, last_restart, current_time, config, env, exit_status, harness>>

\* variant of MR_AfterStop that settles and notifies after the stop step too
MR_AfterStop_NotifyEachStep ==
    /\ Head(pc) = "mr_after_stop"
    /\ IF ~ret
       THEN /\ log' = Append(log, "rc_false")
            /\ pc' = Tail(pc)
            /\ UNCHANGED now
       ELSE /\ now' = now + SettleDelay + CmdLatency + ManualPause
            /\ log' = log \o <<"settle", "notify", "pause">>
            /\ pc' = <<"st_entry", "mr_after_start">> \o Tail(pc)
    /\ UNCHANGED <<ret, last_restart, current_time, config, env, exit_status, harness>>

\* after stop_container returned: return False, or sleep 5 and call
\* start_container
MR_AfterStop ==
    /\ Head(pc) = "mr_after_stop"
    /\ IF ~ret
       THEN /\ log' = Append(log, "rc_false")
            /\ pc' = Tail(pc)
            /\ UNCHANGED now
       ELSE /\ now' = now + ManualPause
            /\ log' = Append(log, "pause")
            /\ pc' = <<"st_entry", "mr_after_start">> \o Tail(pc)
    /\ UNCHANGED <<ret, last_restart, current_time, config, env, exit_status, harness>>

\* variant of MR_AfterStart that notifies the trading engine of the failed
\* start as well
MR_AfterStart_NotifyOnFailure ==
    /\ Head(pc) = "mr_after_start"
    /\ IF ~ret
       THEN /\ log' = log \o <<"settle", "notify", "rc_false">>
            /\ pc' = Tail(pc)
            /\ now' = now + SettleDelay + CmdLatency
       ELSE /\ now' = now + SettleDelay
            /\ log' = Append(log, "settle")
            /\ pc' = <<"mr_notify">> \o Tail(pc)
    /\ UNCHANGED <<ret, last_restart, current_time, config, env, exit_status, harness>>

\* variant of MR_AfterStart that notifies before the settle delay
MR_AfterStart_NotifyFirst ==
    /\ Head(pc) = "mr_after_start"
    /\ IF ~ret
       THEN /\ log' = Append(log, "rc_false")
            /\ pc' = Tail(pc)
            /\ UNCHANGED <<now, last_restart, ret>>
       ELSE /\ now' = now + CmdLatency + SettleDelay
            /\ last_restart' = now + CmdLatency + SettleDelay
            /\ log' = log \o <<"notify", "settle", "rc_true">>
            /\ ret' = TRUE
            /\ pc' = Tail(pc)
    /\ UNCHANGED <<current_time, config, env, exit_status, harness>>

\* after start_container returned: return False, or sleep 30
MR_AfterStart ==
    /\ Head(pc) = "mr_after_start"
    /\ IF ~ret
       THEN /\ log' = Append(log, "rc_false")
            /\ pc' = Tail(pc)
            /\ UNCHANGED now
       ELSE /\ now' = now + SettleDelay
            /\ log' = Append(log, "settle")
            /\ pc' = <<"mr_notify">> \o Tail(pc)
    /\ UNCHANGED <<ret, last_restart, current_time, config, env, exit_status, harness>>

\* notify_restart() (every outcome of the post is logged and swallowed),
\* self.last_restart = datetime.now(), return True
MR_Notify ==
    /\ Head(pc) = "mr_notify"
    /\ now' = now + CmdLatency
    /\ last_restart' = now + CmdLatency
    /\ \E o \in NotifyOutcomes : log' = log \o <<"notify", o, "rc_true">>
    /\ ret' = TRUE
    /\ pc' = Tail(pc)
    /\ UNCHANGED <<current_time, config, env, exit_status, harness>>

\* ---- monitor_loop ----
\* variant of LoopTick that runs the health check before looking at the
\* schedule
LoopTick_HealthFirst ==
    /\ Head(pc) = "loop_tick"
    /\ current_time' = now
    /\ ticks' = ticks + 1
    /\ lrStart' = last_restart
    /\ snap' = Snapshot
    /\ log' = <<>>
    /\ trigger' = "none"
    /\ pc' = <<"hc_entry", "loop_after_hc">>
    /\ alwaysUp' = (alwaysUp /\ container = "running" /\ portOpen)
    /\ UNCHANGED <<ret, now, last_restart, config, env, exit_status, calls, lastCall,
                   hcPassed, faults>>

\* top of an iteration: current_time = datetime.now(), the schedule test,
\* and the call it selects
LoopTick ==
    /\ Head(pc) = "loop_tick"
    /\ current_time' = now
    /\ ticks' = ticks + 1
    /\ lrStart' = last_restart
    /\ snap' = Snapshot
    /\ log' = <<"sched_check">>
    /\ IF now - last_restart >= restart_interval
       THEN /\ trigger' = "schedule"
            /\ pc' = <<"rc_entry", "loop_after_restart">>
       ELSE /\ trigger' = "none"
            /\ pc' = <<"hc_entry", "loop_after_hc">>
    /\ alwaysUp' = (alwaysUp /\ container = "running" /\ portOpen)
    /\ UNCHANGED <<ret, now, last_restart, config, env, exit_status, calls, lastCall,
                   hcPassed, faults>>

\* variant of LoopAfterHC that never recovers an unhealthy container
LoopAfterHC_NoRecovery ==
    /\ Head(pc) = "loop_after_hc"
    /\ pc' = <<"loop_sleep">>
    /\ hcPassed' = (hcPassed /\ ret)
    /\ UNCHANGED <<ret, now, last_restart, current_time, config, env, exit_status,
                   ticks, calls, lastCall, log, lrStart, snap, alwaysUp, trigger, faults>>

\* variant of LoopAfterHC that stamps last_restart on healthy ticks as well
LoopAfterHC_TouchTimestamp ==
    /\ Head(pc) = "loop_after_hc"
    /\ IF ~ret
       THEN /\ trigger' = "health"
            /\ pc' = <<"rc_entry", "loop_after_restart">>
            /\ UNCHANGED last_restart
       ELSE /\ pc' = <<"loop_sleep">>
            /\ last_restart' = current_time
            /\ UNCHANGED trigger
    /\ hcPassed' = (hcPassed /\ ret)
    /\ UNCHANGED <<ret, now, current_time, config, env, exit_status,
                   ticks, calls, lastCall, log, lrStart, snap, alwaysUp, faults>>

\* elif not self.health_check(): restart_container_direct()
LoopAfterHC ==
    /\ Head(pc) = "loop_after_hc"
    /\ IF ~ret
       THEN /\ trigger' = "health"
            /\ pc' = <<"rc_entry", "loop_after_restart">>
       ELSE /\ pc' = <<"loop_sleep">>
            /\ UNCHANGED trigger
    /\ hcPassed' = (hcPassed /\ ret)
    /\ UNCHANGED <<ret, now, last_restart, current_time, config, env, exit_status,
                   ticks, calls, lastCall, log, lrStart, snap, alwaysUp, faults>>

\* variant of LoopAfterRestart that stamps last_restart only when the restart
\* reported success
LoopAfterRestart_OnlyOnSuccess ==
    /\ Head(pc) = "loop_after_restart"
    /\ last_restart' = IF ret THEN current_time ELSE last_restart
    /\ pc' = <<"loop_sleep">>
    /\ UNCHANGED <<ret, now, current_time, config, env, exit_status, harness, log>>

\* variant of LoopAfterRestart that retries a failed restart once, at once
LoopAfterRestart_RetryNow ==
    /\ Head(pc) = "loop_after_restart"
    /\ last_restart' = current_time
    /\ pc' = IF ~ret /\ Count(log, "rc_call") < 2
             THEN <<"rc_entry", "loop_after_restart">>
             ELSE <<"loop_sleep">>
    /\ UNCHANGED <<ret, now, current_time, config, env, exit_status, harness, log>>

\* self.last_restart = current_time, in either branch
LoopAfterRestart ==
    /\ Head(pc) = "loop_after_restart"
    /\ last_restart' = current_time
    /\ pc' = <<"loop_sleep">>
    /\ UNCHANGED <<ret, now, current_time, config, env, exit_status, harness, log>>

\* time.sleep(self.health_check_interval); while the supervisor sleeps the
\* container may crash or be started by someone else, and the port may open
\* or close.  The record of the finished tick is dropped here.
LoopSleep ==
    /\ Head(pc) = "loop_sleep"
    /\ ticks < MaxTicks
    /\ now' = now + health_check_interval
    /\ pc' = <<"loop_tick">>
    /\ container' \in ExternalChanges
    /\ portOpen' \in PortAfterSleep(container')
    /\ log' = <<>>
    /\ trigger' = "none"
    /\ lrStart' = last_restart
    /\ UNCHANGED <<ret, last_restart, current_time, config, otherRunning,
                   exit_status, ticks, calls, lastCall, alwaysUp, hcPassed, faults>>
    /\ snap' = Snapshot'

\* ---- monitor_loop: exceptions and interruption ----
LoopLabels == {"loop_tick", "loop_after_hc", "loop_after_restart", "loop_sleep",
               "loop_fallback"}
\* the program is inside monitor_loop, at the loop's own level or in a
\* method the loop called
InLoop == pc[Len(pc)] \in LoopLabels

\* A statement of the loop body itself (a logging call, the assignment,
\* time.sleep) raises an exception other than KeyboardInterrupt: control
\* goes to `except Exception`, which logs it.  Exceptions raised inside the
\* manager's methods never get here, each method catches its own.  Explored
\* while the loop has a further iteration to go on with.
LoopRaise ==
    /\ Head(pc) \in {"loop_after_hc", "loop_after_restart", "loop_sleep"}
    /\ faults < MaxFaults
    /\ ticks < MaxTicks
    /\ faults' = faults + 1
    /\ log' = Append(log, "error")
    /\ pc' = <<"loop_fallback">>
    /\ UNCHANGED <<ret, now, last_restart, current_time, config, env, exit_status,
                   ticks, calls, lastCall, trigger, lrStart, snap, alwaysUp, hcPassed>>

\* variant of LoopFallback that lets the exception end the loop
LoopFallback_Terminate ==
    /\ Head(pc) = "loop_fallback"
    /\ ticks < MaxTicks
    /\ now' = now + CmdLatency
    /\ log' = Append(log, "crash")
    /\ pc' = <<"exited">>
    /\ exit_status' = 1
    /\ UNCHANGED <<ret, last_restart, current_time, config, env, harness>>

\* time.sleep(60) in the exception handler, then the next iteration; the
\* runtime may change during the sleep as during the regular one
LoopFallback ==
    /\ Head(pc) = "loop_fallback"
    /\ ticks < MaxTicks
    /\ now' = now + FallbackDelay
    /\ pc' = <<"loop_tick">>
    /\ container' \in ExternalChanges
    /\ portOpen' \in PortAfterSleep(container')
    /\ log' = <<"error", "fallback">>
    /\ trigger' = "none"
    /\ lrStart' = last_restart
    /\ UNCHANGED <<ret, last_restart, current_time, config, otherRunning,
                   exit_status, ticks, calls, lastCall, alwaysUp, hcPassed, faults>>
    /\ snap' = Snapshot'

\* The operator interrupts the process (KeyboardInterrupt in the main
\* thread) while it is at the statement Head(pc), inside a blocking call or
\* between two statements.  No method catches KeyboardInterrupt (they catch
\* Exception), so from anywhere in the try body it reaches
\* `except KeyboardInterrupt: break`, monitor_loop returns and main ends with
\* status 0.  Raised during time.sleep(60) it is inside the `except
\* Exception` handler, where the sibling clause does not apply: it leaves
\* monitor_loop and main as an unhandled exception.
Interrupt ==
    /\ InLoop
    /\ IF Head(pc) = "loop_fallback"
       THEN /\ log' = log \o <<"interrupt", "uncaught">>
            /\ exit_status' = InterruptStatus
       ELSE /\ log' = log \o <<"interrupt", "break">>
            /\ exit_status' = 0
    /\ pc' = <<"exited">>
    /\ UNCHANGED <<ret, now, last_restart, current_time, config, env, harness>>

\* ---- restart_now ----
\* the result of restart_container_direct() is dropped; return True
RN_Return ==
    /\ Head(pc) = "rn_return"
    /\ ret' = TRUE
    /\ pc' = Tail(pc)
    /\ UNCHANGED <<now, last_restart, current_time, config, env, exit_status, harness, log>>

\* ---- main ----
\* variant of Main that tests the flags one after the other (if, if, if)
\* instead of in an if / elif chain
Main_EveryFlag ==
    /\ Head(pc) = "main"
    /\ IF args.restart_now
       THEN pc' = <<"rc_entry", "rn_return">>
                    \o (IF args.health_check THEN <<"hc_entry">> ELSE <<>>)
                    \o <<"main_rn_exit">>
            /\ UNCHANGED exit_status
       ELSE IF args.health_check
       THEN pc' = <<"hc_entry", "main_hc_exit">> /\ UNCHANGED exit_status
       ELSE IF args.daemon
       THEN pc' = <<"loop_tick">> /\ UNCHANGED exit_status
       ELSE pc' = <<"exited">> /\ exit_status' = 0
    /\ UNCHANGED <<ret, now, last_restart, current_time, config, env, harness, log>>

\* the if / elif chain over the parsed flags
Main ==
    /\ Head(pc) = "main"
    /\ IF args.restart_now
       THEN pc' = <<"rc_entry", "rn_return", "main_rn_exit">> /\ UNCHANGED exit_status
       ELSE IF args.health_check
       THEN pc' = <<"hc_entry", "main_hc_exit">> /\ UNCHANGED exit_status
       ELSE IF args.daemon
       THEN pc' = <<"loop_tick">> /\ UNCHANGED exit_status
       ELSE pc' = <<"exited">> /\ exit_status' = 0
    /\ UNCHANGED <<ret, now, last_restart, current_time, config, env, harness, log>>

\* sys.exit(0 if success else 1)
MainRnExit ==
    /\ Head(pc) = "main_rn_exit"
    /\ exit_status' = IF ret THEN 0 ELSE 1
    /\ pc' = <<"exited">>
    /\ UNCHANGED <<ret, now, last_restart, current_time, config, env, harness, log>>

\* sys.exit(0 if healthy else 1)
MainHcExit ==
    /\ Head(pc) = "main_hc_exit"
    /\ exit_status' = IF ret THEN 0 ELSE 1
    /\ pc' = <<"exited">>
    /\ UNCHANGED <<ret, now, last_restart, current_time, config, env, harness, log>>

\* ---- a caller using the manager object directly ----
PublicMethods == {"st_entry", "sc_entry", "rc_entry", "hc_entry"}

\* one call of a public method; between two calls the runtime may have
\* changed in any way
ApiCall ==
    /\ Head(pc) = "api"
    /\ calls < MaxCalls
    /\ \E m \in PublicMethods :
        /\ lastCall' = m
        /\ pc' = <<m, "api">>
    /\ calls' = calls + 1
    /\ log' = <<>>
    /\ lrStart' = last_restart
    /\ container' \in ExternalChanges
    /\ portOpen' \in BOOLEAN
    /\ UNCHANGED <<ret, now, last_restart, current_time, config, otherRunning,
                   exit_status, ticks, trigger, alwaysUp, hcPassed, faults>>
    /\ snap' = Snapshot'

Next ==
    \/ Main \/ MainRnExit \/ MainHcExit \/ RN_Return
    \/ LoopTick \/ LoopAfterHC \/ LoopAfterRestart \/ LoopSleep
    \/ RC_Entry \/ RC_Settle \/ RC_Notify
    \/ MR_AfterStop \/ MR_AfterStart \/ MR_Notify
    \/ ST_Entry \/ ST_Start \/ ST_Rm \/ ST_Run
    \/ SC_Entry \/ SC_Stop
    \/ HC_Entry \/ HC_Connect
    \/ ApiCall

Spec == Init /\ [][Next]_vars

\* the interpreter always runs the next statement of its single thread
FairSpec == Spec /\ WF_vars(Next)

\* ---- daemon mode under exceptions and interruption ----
\* the process was started with --daemon alone, with the short restart
\* interval (so that both triggers fire within the ticks explored)
DaemonInit ==
    /\ Init
    /\ pc = <<"main">>
    /\ args = [restart_now |-> FALSE, health_check |-> FALSE, daemon |-> TRUE]
    /\ restart_interval = 2 * health_check_interval

\* the program's own steps in daemon mode
DaemonProgram ==
    \/ Main
    \/ LoopTick \/ LoopAfterHC \/ LoopAfterRestart \/ LoopSleep \/ LoopFallback
    \/ RC_Entry \/ RC_Settle \/ RC_Notify
    \/ MR_AfterStop \/ MR_AfterStart \/ MR_Notify
    \/ ST_Entry \/ ST_Start \/ ST_Rm \/ ST_Run
    \/ SC_Entry \/ SC_Stop
    \/ HC_Entry \/ HC_Connect

DaemonNext == DaemonProgram \/ LoopRaise \/ Interrupt

DaemonSpec == DaemonInit /\ [][DaemonNext]_vars

TypeOK ==
    /\ pc \in Seq(STRING) /\ Len(pc) >= 1
    /\ ret \in BOOLEAN
    /\ now \in Nat /\ last_restart \in Nat /\ current_time \in Nat
    /\ container \in ContainerStates
    /\ exit_status \in {-1, 0, 1, InterruptStatus}
    /\ faults \in 0..MaxFaults

\* ---- vocabulary of the properties ----
Events == Range(log)
\* the iteration of the monitor loop has reached its closing sleep
TickEnd == Head(pc) = "loop_sleep"
\* the schedule test of the current tick: elapsed >= restart interval
Due == current_time - lrStart >= restart_interval
\* the container was not running, or its port closed, when the tick began
UnhealthyAtStart == ~snap.running \/ ~snap.port
\* a direct call of method m has returned to the caller
ApiReturned(m) == Head(pc) = "api" /\ calls > 0 /\ lastCall = m
\* the list command issued on entry of the method logged as `call` exited 0
ListOk(call) ==
    \E i \in 1..(Len(log) - 2) : log[i] = call /\ log[i + 1] = "ps" /\ log[i + 2] = "ok"
\* ... or failed
ListFailed(call) ==
    \E i \in 1..(Len(log) - 2) : log[i] = call /\ log[i + 1] = "ps" /\ log[i + 2] = "fail"
\* restart_container took the manual stop/start path
FallbackTaken == "rc_call" \in Events /\ "pause" \in Events

\* C1: the restart-now invocation runs the restart algorithm exactly once and
\* exits with status 0 if and only if that restart reported success (so it
\* exits non-zero when the runtime is unavailable).
C1_ExitStatusReflectsRestart ==
    (args.restart_now /\ Head(pc) = "exited")
        => /\ Count(log, "rc_call") = 1
           /\ (exit_status = 0 <=> "rc_true" \in Events)

\* C2: at the end of every tick of the monitor loop, last_restart differs from
\* its value at the start of the tick if and only if a restart was attempted
\* in the tick, whether the restart reported success or failure.
C2_TimestampChangesIffRestartAttempted ==
    TickEnd => ((last_restart # lrStart) <=> ("rc_call" \in Events))

C2_Witness ==
    /\ TickEnd
    /\ ticks >= 2
    /\ docker_available
    /\ "rc_false" \in Events
    /\ last_restart # lrStart

\* C3: in a tick where the elapsed time has reached the restart interval and
\* the container is also unhealthy, exactly one restart operation is
\* performed, by the schedule trigger, and the loop does not call
\* health_check.
C3_SchedulePriority ==
    (TickEnd /\ Due /\ UnhealthyAtStart)
        => /\ Count(log, "rc_call") = 1
           /\ trigger = "schedule"
           /\ "hc_call" \notin Events

C3_Witness ==
    /\ TickEnd
    /\ Due
    /\ UnhealthyAtStart
    /\ docker_available
    /\ "rc_true" \in Events

\* C4: with the runtime available, when the native restart command fails and
\* the stop and start steps then succeed, the restart operation reports
\* success, and it applies the settle delay once and the notifier once; at no
\* point of a restart operation has either been applied twice.
C4_FallbackLadder ==
    /\ (Count(log, "settle") <= 1 /\ Count(log, "notify") <= 1)
    /\ (/\ docker_available
        /\ FallbackTaken
        /\ "sc_true" \in Events
        /\ "st_true" \in Events
        /\ ("rc_true" \in Events \/ "rc_false" \in Events))
        => /\ "rc_true" \in Events
           /\ Count(log, "settle") = 1
           /\ Count(log, "notify") = 1

C4_Witness ==
    /\ docker_available
    /\ "restart" \in Events
    /\ ~CmdOk(log, "restart")
    /\ CmdOk(log, "stop")
    /\ CmdOk(log, "start")
    /\ "rc_true" \in Events

\* C5: when the availability probe was false, every call of start_container,
\* stop_container, restart_container and health_check, from a caller or from
\* a tick of the loop, returns failure / unhealthy and issues no runtime
\* command, opens no TCP connection and sends no notification.
C5_UnavailableGuard ==
    ~docker_available
        => Events \subseteq {"sched_check", "st_call", "sc_call", "rc_call", "hc_call",
                             "st_false", "sc_false", "rc_false", "hc_false"}

C5_Witness ==
    /\ ~docker_available
    /\ ApiReturned("sc_entry")
    /\ calls = MaxCalls
    /\ "sc_false" \in Events
    /\ snap.running

\* C6 as claimed: with the runtime available, stop_container called on a
\* container that is not running reports success and issues no stop command,
\* and start_container called on a container that is running reports success
\* and issues no start, remove or create command; either call, repeated,
\* gives the same result and leaves the container state unchanged.
C6_IdempotentAsClaimed ==
    /\ (ApiReturned("sc_entry") /\ docker_available /\ ~snap.running)
        => (ret /\ "stop" \notin Events /\ container = snap.state)
    /\ (ApiReturned("st_entry") /\ docker_available /\ snap.running)
        => (ret /\ Events \cap {"start", "rm", "run"} = {} /\ container = snap.state)

\* C6 amended: as claimed for stop_container; start_container called on a
\* running container reports success, issues no start, remove or create
\* command and leaves the container state unchanged, however often it is
\* repeated, provided its list command does not fail (a failed list command
\* counts as "not running").
C6_Idempotent ==
    /\ (ApiReturned("sc_entry") /\ docker_available /\ ~snap.running)
        => (ret /\ "stop" \notin Events /\ container = snap.state)
    /\ (ApiReturned("st_entry") /\ docker_available /\ snap.running /\ ~ListFailed("st_call"))
        => (ret /\ Events \cap {"start", "rm", "run"} = {} /\ container = snap.state)

C6_Witness ==
    /\ ApiReturned("st_entry")
    /\ calls = MaxCalls
    /\ docker_available
    /\ snap.running
    /\ ListOk("st_call")
    /\ ret

\* C7 as claimed: in daemon mode with the restart interval equal to two poll
\* intervals and the container running, its port open and the health check
\* passing at every tick, tick 1 performs no action and tick 2 performs a
\* scheduled restart.
C7_ScenarioAsClaimed ==
    (TickEnd /\ restart_interval = 2 * health_check_interval /\ alwaysUp /\ hcPassed)
        => /\ ticks = 1 => (trigger = "none" /\ "rc_call" \notin Events)
           /\ ticks = 2 => (trigger = "schedule" /\ Count(log, "rc_call") = 1)

\* C7 amended: in daemon mode with the restart interval equal to two poll
\* intervals, while the health check passes, ticks 1 and 2 perform no action;
\* tick 3 performs the scheduled restart without calling health_check,
\* whether or not the container is healthy then.
C7_Scenario ==
    (TickEnd /\ restart_interval = 2 * health_check_interval /\ hcPassed)
        => /\ ticks \in {1, 2} => /\ trigger = "none"
                                  /\ "rc_call" \notin Events
                                  /\ Events \cap MutatingCmds = {}
           /\ ticks = 3 => /\ trigger = "schedule"
                           /\ Count(log, "rc_call") = 1
                           /\ "hc_call" \notin Events

C7_Witness ==
    /\ TickEnd
    /\ restart_interval = 2 * health_check_interval
    /\ ticks = 3
    /\ alwaysUp
    /\ hcPassed
    /\ trigger = "schedule"
    /\ "rc_true" \in Events

\* C8 as claimed: in a tick where the elapsed time is below the restart
\* interval and the container is not running or its port is closed, the
\* health check reports unhealthy and the tick performs one restart; when the
\* runtime is available and that restart succeeds, the notifier is invoked
\* exactly once in the tick and last_restart is updated.  In a tick where the
\* elapsed time is below the interval and the container is healthy (running,
\* port open), no restart, stop, start, rm or run command is issued.
C8_HealthTriggerAsClaimed ==
    /\ (TickEnd /\ ~Due /\ UnhealthyAtStart)
        => /\ "hc_false" \in Events
           /\ trigger = "health"
           /\ Count(log, "rc_call") = 1
    /\ (TickEnd /\ ~Due /\ UnhealthyAtStart /\ docker_available /\ "rc_true" \in Events)
        => /\ Count(log, "notify") = 1
           /\ last_restart # lrStart
    /\ (TickEnd /\ ~Due /\ snap.running /\ snap.port)
        => Events \cap MutatingCmds = {}

\* C8 amended: the first two parts as claimed; in a tick where the elapsed
\* time is below the interval and the container is healthy, no restart, stop,
\* start, rm or run command is issued provided the list command of the health
\* check does not fail (a failed list command counts as "not running" and
\* triggers a restart).
C8_HealthTrigger ==
    /\ (TickEnd /\ ~Due /\ UnhealthyAtStart)
        => /\ "hc_false" \in Events
           /\ trigger = "health"
           /\ Count(log, "rc_call") = 1
    /\ (TickEnd /\ ~Due /\ UnhealthyAtStart /\ docker_available /\ "rc_true" \in Events)
        => /\ Count(log, "notify") = 1
           /\ last_restart # lrStart
    /\ (TickEnd /\ ~Due /\ snap.running /\ snap.port /\ ~ListFailed("hc_call"))
        => Events \cap MutatingCmds = {}

C8_Witness ==
    /\ TickEnd
    /\ ticks = 1
    /\ ~Due
    /\ ~snap.running
    /\ docker_available
    /\ "rc_true" \in Events
    /\ Count(log, "notify") = 1
    /\ last_restart # lrStart

\* C9: after a tick that performed a restart, last_restart equals the time at
\* which that restart finished (the clock after the restart and its settle
\* delay), never an earlier time.
C9_TimestampIsRestartCompletion ==
    (TickEnd /\ "rc_call" \in Events) => last_restart = now

\* C10: in every restart operation, on the native path and on the manual
\* path, the notification is sent directly after the settle delay and never
\* before it; and in every tick the schedule check comes before any health
\* check.
C10_Ordering ==
    /\ \A i \in Positions(log, "notify") : i > 1 /\ log[i - 1] = "settle"
    /\ \A i \in Positions(log, "settle") : \A j \in 1..i : log[j] # "notify"
    /\ ticks >= 1 =>
         \A i \in Positions(log, "hc_call") : \E j \in 1..(i - 1) : log[j] = "sched_check"

C10_Witness ==
    /\ ticks >= 1
    /\ "hc_call" \in Events
    /\ FallbackTaken
    /\ "notify" \in Events

\* the restart operation of the current tick / call has returned
RestartReturned == "rc_true" \in Events \/ "rc_false" \in Events

\* C11: whatever the notifier's outcome (200, another status, network error,
\* timeout), the restart operation returns True directly after it: nothing of
\* the delivery reaches the caller; and a restart whose native restart command
\* succeeded reports success.
C11_NotifyOutcomeSwallowed ==
    /\ \A i \in Positions(log, "notify") :
         (i + 1 <= Len(log))
            => /\ log[i + 1] \in NotifyOutcomes
               /\ i + 2 <= Len(log)
               /\ log[i + 2] = "rc_true"
    /\ (RestartReturned /\ CmdOk(log, "restart")) => "rc_true" \in Events
    /\ (TickEnd /\ "notify" \in Events) => ret

C11_Witness ==
    /\ TickEnd
    /\ CmdOk(log, "restart")
    /\ "timeout" \in Events
    /\ "rc_true" \in Events
    /\ ret

\* a call of health_check has returned in the current tick / call / run
HealthCheckReturned == "hc_true" \in Events \/ "hc_false" \in Events
\* the events a call of health_check may log
HealthCheckEvents == {"hc_call", "ps", "ok", "fail", "connect", "hc_true", "hc_false"}
\* the program is inside health_check
InHealthCheck == Head(pc) \in {"hc_entry", "hc_connect"}

\* C12: health_check returns healthy if and only if its list command exited 0
\* with the configured name an exact member of the listed names (the listing
\* of a longer name only does not count, a failed list command counts as not
\* running) and the TCP connect succeeded; when the name is not listed it
\* returns without attempting the connect.
C12_HealthyIffListedAndConnected ==
    HealthCheckReturned
        => /\ ("hc_true" \in Events)
                <=> (ListOk("hc_call") /\ snap.running /\ snap.port)
           /\ ~(ListOk("hc_call") /\ snap.running) => "connect" \notin Events
           /\ (ListOk("hc_call") /\ snap.running) => "connect" \in Events

C12_Witness ==
    /\ HealthCheckReturned
    /\ ListOk("hc_call")
    /\ snap.other
    /\ ~snap.running
    /\ snap.port
    /\ "hc_false" \in Events
    /\ "connect" \notin Events

\* C13: every step of health_check, in any container state and however often
\* it is called, leaves last_restart, the cached availability and the
\* container unchanged, and logs nothing but the list command, the connect
\* and its own call and return: no start, stop, restart, rm or run command
\* and no notification.
C13_HealthCheckNeverRecovers ==
    [][InHealthCheck
         => /\ UNCHANGED <<last_restart, docker_available, container, otherRunning, portOpen>>
            /\ Len(log') >= Len(log)
            /\ \A i \in (Len(log) + 1)..Len(log') : log'[i] \in HealthCheckEvents]_vars

C13_Witness ==
    /\ ApiReturned("hc_entry")
    /\ calls = MaxCalls
    /\ docker_available
    /\ ~snap.running
    /\ "hc_false" \in Events
    /\ container = snap.state

\* the process is running (sys.exit or the end of main not reached)
Running == exit_status = -1

\* C14: an exception raised in the body of a tick is caught by the loop (the
\* program is then in the handler, still running); the handler's step is the
\* 60s delay and leads to the top of the loop; the step after it starts a
\* further tick; and the process leaves the loop only by an interruption.
C14_LoopSurvivesErrors ==
    [][/\ (Len(log') > 0 /\ log'[Len(log')] = "error" /\ log' # log)
            => (pc' = <<"loop_fallback">> /\ Running')
       /\ (Head(pc) = "loop_fallback" /\ Running')
            => (now' = now + FallbackDelay /\ pc' = <<"loop_tick">>)
       /\ (Head(pc) = "loop_tick" /\ "fallback" \in Events /\ Running')
            => (ticks' = ticks + 1 /\ Head(pc') \in {"rc_entry", "hc_entry"})
       /\ (Running /\ ~Running') => "interrupt" \in Range(log')]_vars

C14_Witness ==
    /\ TickEnd
    /\ faults = 1
    /\ "error" \notin Events
    /\ ticks >= 2
    /\ "rc_call" \in Events

\* C15: when daemon mode has ended, it ended through the loop's own
\* `except KeyboardInterrupt` (break, status 0), and a restart whose runtime
\* command had succeeded in the last tick (docker restart, or the start step
\* of the manual path) has completed its settle delay and its notification.
C15_InterruptNeverCancelsRestart ==
    (args.daemon /\ ~Running)
        => /\ "break" \in Events
           /\ exit_status = 0
           /\ (CmdOk(log, "restart") \/ (FallbackTaken /\ "st_true" \in Events))
                => ("settle" \in Events /\ "notify" \in Events)

\* every path of the restart operation of the current tick failed
RestartFailed == "rc_false" \in Events

\* C16: a tick or call never issues the native restart command twice nor
\* starts a second restart operation; the step that ends a tick is the poll
\* interval's sleep, leading to the next tick; a tick that began with the
\* container not running or its port closed has attempted a restart by its
\* end; and, the loop being scheduled fairly, the daemon goes from every
\* point of every tick, whatever failed in it, on to the end of each later
\* tick explored, so a restart is attempted at every tick that finds the
\* container unhealthy.
C16_NoImmediateRetryNoStuckState ==
    /\ [](Count(log, "restart") <= 1 /\ Count(log, "rc_call") <= 1)
    /\ []((TickEnd /\ UnhealthyAtStart) => Count(log, "rc_call") = 1)
    /\ [][Head(pc) = "loop_sleep"
            => (now' = now + health_check_interval /\ pc' = <<"loop_tick">>)]_vars
    /\ InLoop ~> (TickEnd /\ ticks = MaxTicks)

C16_Witness ==
    /\ TickEnd
    /\ ticks = MaxTicks
    /\ docker_available
    /\ UnhealthyAtStart
    /\ ~hcPassed
    /\ "run" \in Events
    /\ RestartFailed
    /\ Count(log, "restart") = 1

\* the process was started through main() (not a caller of the methods)
FromMain == pc[Len(pc)] # "api"
\* the modes of which the process has executed something
ModesRun ==
    (IF ticks > 0 \/ InLoop THEN {"daemon"} ELSE {})
      \cup (IF ticks = 0 /\ "hc_call" \in Events THEN {"health_check"} ELSE {})
      \cup (IF ticks = 0 /\ "rc_call" \in Events THEN {"restart_now"} ELSE {})
\* the mode the flags select: the first flag set, in the order restart-now,
\* health-check, daemon
ModeSelected ==
    IF args.restart_now THEN {"restart_now"}
    ELSE IF args.health_check THEN {"health_check"}
    ELSE IF args.daemon THEN {"daemon"}
    ELSE {}

\* C17: a process run in health-check mode (flag --health-check, without
\* --restart-now) calls health_check exactly once, issues no start, stop,
\* restart, rm or run command, and exits with status 0 if the check returned
\* healthy and 1 otherwise; and for every combination of the three flags a
\* process run executes at most one mode, the one its flags select.
C17_HealthCheckModeAndExclusiveModes ==
    FromMain
        => /\ Cardinality(ModesRun) <= 1
           /\ ModesRun \subseteq ModeSelected
           /\ (args.health_check /\ ~args.restart_now)
                => /\ Count(log, "hc_call") <= 1
                   /\ Events \cap MutatingCmds = {}
                   /\ ~Running
                        => /\ Count(log, "hc_call") = 1
                           /\ exit_status = (IF "hc_true" \in Events THEN 0 ELSE 1)

C17_Witness ==
    /\ FromMain
    /\ args.health_check
    /\ args.daemon
    /\ ~args.restart_now
    /\ ~Running
    /\ ~snap.running
    /\ exit_status = 1
    /\ ticks = 0

\* the command logged at position i failed
FailedAt(i) == i + 1 <= Len(log) /\ log[i + 1] = "fail"

\* C18: in a restart operation every stop, start, rm or run command comes
\* after the native restart command, which has failed; wherever start_container
\* runs, a rm is directly preceded by a failed start of the existing
\* container, a run is directly preceded by the rm, and the command after a
\* rm is the run, whether the rm succeeded or failed.
C18_LadderOrder ==
    /\ "rc_call" \in Events
         => \A i \in 1..Len(log) :
              log[i] \in MutatingCmds \ {"restart"}
                 => \E j \in 1..(i - 1) : log[j] = "restart" /\ FailedAt(j)
    /\ \A i \in Positions(log, "rm") :
         /\ i > 2 /\ log[i - 2] = "start" /\ FailedAt(i - 2)
         /\ i + 2 <= Len(log) => log[i + 2] = "run"
    /\ \A i \in Positions(log, "run") : i > 2 /\ log[i - 2] = "rm"

C18_Witness ==
    /\ "rc_call" \in Events
    /\ \E i \in Positions(log, "rm") : FailedAt(i) /\ i + 2 <= Len(log) /\ log[i + 2] = "run"
    /\ CmdOk(log, "run")
    /\ "rc_true" \in Events

\* C19: a restart operation that returned success has sent exactly one
\* notification, one that returned failure (runtime unavailable, stop failed,
\* start and create both failed) has sent none, and where no restart
\* operation ran (start_container, stop_container, health_check, a tick
\* without trigger) no notification is sent.
C19_NotifyOncePerSuccessfulRestart ==
    /\ "rc_true" \in Events => Count(log, "notify") = 1
    /\ "rc_false" \in Events => Count(log, "notify") = 0
    /\ "rc_call" \notin Events => "notify" \notin Events
    /\ Count(log, "notify") <= 1

C19_Witness ==
    /\ ApiReturned("rc_entry")
    /\ calls = MaxCalls
    /\ docker_available
    /\ "start" \in Events
    /\ "run" \in Events
    /\ ~CmdOk(log, "run")
    /\ "rc_false" \in Events
    /\ "notify" \notin Events

\* C20: in a restart operation, once stop_container has reported failure no
\* start_container call and no start, rm or run command follows, and the
\* operation returns failure; start_container is called only after
\* stop_container reported success, which it also does when the container
\* was not listed as running or the list command failed.
C20_StopFailureAbortsManualRestart ==
    "rc_call" \in Events
        => /\ "sc_false" \in Events
                => /\ "st_call" \notin Events
                   /\ Events \cap {"start", "rm", "run"} = {}
                   /\ "rc_true" \notin Events
                   /\ Head(pc) = "mr_after_stop" \/ RestartFailed
           /\ \A i \in Positions(log, "st_call") :
                \E j \in 1..(i - 1) : log[j] = "sc_true"
           /\ (\/ ListFailed("sc_call")
               \/ (ListOk("sc_call") /\ Head(pc) # "sc_stop" /\ "stop" \notin Events))
                => "sc_true" \in Events

C20_Witness ==
    /\ ApiReturned("rc_entry")
    /\ docker_available
    /\ "stop" \in Events
    /\ ~CmdOk(log, "stop")
    /\ "sc_false" \in Events
    /\ RestartFailed
    /\ snap.running

\* C21: last_restart never decreases: every step that writes it (a
\* successful restart operation, the loop after a triggered restart) stores a
\* value greater than or equal to the one it overwrites, and the stored value
\* is never later than the clock.
C21_TimestampMonotonic ==
    [][last_restart' >= last_restart /\ last_restart' <= now']_vars

====
